---------------------------- MODULE Spec2Model ----------------------------
(***************************************************************************)
(* serverless-registry-proxy (src/main.go): a reverse proxy in front of a  *)
(* container registry.  Strings that the program cuts, matches or joins    *)
(* are sequences of one-character strings; opaque header values are plain  *)
(* strings.                                                                *)
(***************************************************************************)
EXTENDS Integers, Sequences, FiniteSets, TLC

(***************************************************************************)
(* Characters.  Ascii lists the printable ASCII characters in code order,  *)
(* so that the code of Ascii[i] is 31 + i ("GRAVE" holds the place of the  *)
(* grave accent, code 96, which no input uses).                            *)
(***************************************************************************)
Ascii ==
  <<" ","!","\"","#","$","%","&","'","(",")","*","+",",","-",".","/",
    "0","1","2","3","4","5","6","7","8","9",":",";","<","=",">","?",
    "@","A","B","C","D","E","F","G","H","I","J","K","L","M","N","O",
    "P","Q","R","S","T","U","V","W","X","Y","Z","[","\\","]","^","_",
    "GRAVE","a","b","c","d","e","f","g","h","i","j","k","l","m","n","o",
    "p","q","r","s","t","u","v","w","x","y","z","{","|","}","~">>

CharCode(c) == 31 + (CHOOSE i \in 1..Len(Ascii) : Ascii[i] = c)

CodeChar(n) == Ascii[n - 31]

Digits == {"0","1","2","3","4","5","6","7","8","9"}

Lower == {"a","b","c","d","e","f","g","h","i","j","k","l","m",
          "n","o","p","q","r","s","t","u","v","w","x","y","z"}

Upper == {"A","B","C","D","E","F","G","H","I","J","K","L","M",
          "N","O","P","Q","R","S","T","U","V","W","X","Y","Z"}

HexDigits == <<"0","1","2","3","4","5","6","7","8","9","A","B","C","D","E","F">>

(***************************************************************************)
(* Helpers of package strings.                                             *)
(***************************************************************************)
HasPrefixAt(s, p, i) ==
  /\ i >= 1
  /\ i + Len(p) - 1 <= Len(s)
  /\ SubSeq(s, i, i + Len(p) - 1) = p

\* strings.Index from position i (1-based); 0 when p does not occur.
IndexFrom(s, p, i) ==
  LET hits == {j \in i..Len(s) : HasPrefixAt(s, p, j)}
  IN IF hits = {} THEN 0 ELSE CHOOSE j \in hits : \A k \in hits : j <= k

Index(s, p) == IndexFrom(s, p, 1)

Contains(s, p) == Index(s, p) # 0

\* strings.Replace(s, old, new, 1)
ReplaceFirst(s, old, new) ==
  LET i == Index(s, old)
  IN IF i = 0 THEN s
     ELSE SubSeq(s, 1, i - 1) \o new \o SubSeq(s, i + Len(old), Len(s))

\* strings.Cut(s, sep): <<before, after, found>>
Cut(s, sep) ==
  LET i == Index(s, sep)
  IN IF i = 0 THEN <<s, <<>>, FALSE>>
     ELSE <<SubSeq(s, 1, i - 1), SubSeq(s, i + Len(sep), Len(s)), TRUE>>

(***************************************************************************)
(* Package regexp, as src/main.go uses it.  ReplaceAllString expands its   *)
(* replacement as a template: $name and ${name} stand for a submatch, $$   *)
(* for a dollar sign.                                                      *)
(***************************************************************************)
IsWordChar(c) == c \in Digits \cup Lower \cup Upper \cup {"_"}

\* The length of the longest prefix of s made of letters, digits and "_".
RECURSIVE WordLen(_)
WordLen(s) ==
  IF s = <<>> \/ ~IsWordChar(Head(s)) THEN 0 ELSE 1 + WordLen(Tail(s))

\* The value of a decimal name, or -1 when the name is no submatch number.
RECURSIVE DecimalValue(_, _)
DecimalValue(name, acc) ==
  IF name = <<>> THEN acc
  ELSE IF Head(name) \notin Digits THEN -1
  ELSE DecimalValue(Tail(name), acc * 10 + (CharCode(Head(name)) - 48))

\* regexp's extract: the name that follows a "$" in a template.
extract(str) ==
  LET brace == str # <<>> /\ Head(str) = "{"
      body  == IF brace THEN Tail(str) ELSE str
      n     == WordLen(body)
      name  == SubSeq(body, 1, n)
      closed == n + 1 <= Len(body) /\ body[n + 1] = "}"
      num   == IF Head(name) = "0" /\ n > 1 THEN -1 ELSE DecimalValue(name, 0)
  IN IF str = <<>> \/ n = 0 \/ (brace /\ ~closed)
     THEN [ok |-> FALSE, num |-> -1, rest |-> str]
     ELSE [ok |-> TRUE, num |-> num,
           rest |-> SubSeq(body, (IF brace THEN n + 2 ELSE n + 1), Len(body))]

\* regexp's expand: groups[1] is the whole match, groups[k + 1] submatch k.
\* Neither expression of src/main.go names a submatch, so a name that is
\* no number expands to nothing.
RECURSIVE Expand(_, _)
Expand(template, groups) ==
  LET c == Cut(template, <<"$">>)
  IN IF ~c[3] THEN template
     ELSE IF c[2] # <<>> /\ Head(c[2]) = "$"
     THEN c[1] \o <<"$">> \o Expand(Tail(c[2]), groups)
     ELSE LET x == extract(c[2])
          IN IF ~x.ok THEN c[1] \o <<"$">> \o Expand(c[2], groups)
             ELSE c[1]
                  \o (IF x.num >= 0 /\ x.num + 1 <= Len(groups)
                      THEN groups[x.num + 1] ELSE <<>>)
                  \o Expand(x.rest, groups)

S_v2 == <<"/","v","2","/">>

\* re = regexp.MustCompile(`^/v2/`); re.ReplaceAllString(src, repl)
reReplaceAllString(src, repl) ==
  IF HasPrefixAt(src, S_v2, 1)
  THEN Expand(repl, <<S_v2>>) \o SubSeq(src, Len(S_v2) + 1, Len(src))
  ELSE src

S_realmOpen == <<"r","e","a","l","m","=","\"">>

S_quote == <<"\"">>

\* realm = regexp.MustCompile(`realm="(.*?)"`): the closing quote of a match
\* that starts at i, or 0.  The submatch is lazy and holds no line feed.
realmMatchEnd(src, i) ==
  LET q == IndexFrom(src, S_quote, i + Len(S_realmOpen))
  IN IF q = 0 THEN 0
     ELSE IF \E k \in (i + Len(S_realmOpen))..(q - 1) : src[k] = "\n" THEN 0
     ELSE q

\* realm.ReplaceAllString(src, repl): every leftmost match, left to right.
RECURSIVE realmReplaceFrom(_, _, _, _)
realmReplaceFrom(src, repl, copied, from) ==
  LET i == IndexFrom(src, S_realmOpen, from)
  IN IF i = 0 THEN SubSeq(src, copied, Len(src))
     ELSE LET q == realmMatchEnd(src, i)
          IN IF q = 0 THEN realmReplaceFrom(src, repl, copied, i + 1)
             ELSE SubSeq(src, copied, i - 1)
                  \o Expand(repl, <<SubSeq(src, i, q),
                                    SubSeq(src, i + Len(S_realmOpen), q - 1)>>)
                  \o realmReplaceFrom(src, repl, q + 1, q + 1)

realmReplaceAllString(src, repl) == realmReplaceFrom(src, repl, 1, 1)

\* realm.FindStringSubmatch(src): <<match, submatch>> of the leftmost match,
\* or the empty sequence.
RECURSIVE realmFindFrom(_, _)
realmFindFrom(src, from) ==
  LET i == IndexFrom(src, S_realmOpen, from)
  IN IF i = 0 THEN <<>>
     ELSE LET q == realmMatchEnd(src, i)
          IN IF q = 0 THEN realmFindFrom(src, i + 1)
             ELSE <<SubSeq(src, i, q), SubSeq(src, i + Len(S_realmOpen), q - 1)>>

realmFindStringSubmatch(src) == realmFindFrom(src, 1)


(***************************************************************************)
(* Package net/url, as src/main.go uses it: the query of a URL is parsed   *)
(* into a map from keys to lists of values, changed, and encoded again.    *)
(***************************************************************************)
\* url.QueryEscape: letters, digits and -_.~ stay, a space becomes "+",
\* every other byte becomes %XX.
shouldEscape(c) == ~(IsWordChar(c) \/ c \in {"-", ".", "~"})

RECURSIVE QueryEscape(_)
QueryEscape(s) ==
  IF s = <<>> THEN <<>>
  ELSE LET c == Head(s)
       IN (IF c = " " THEN <<"+">>
           ELSE IF shouldEscape(c)
           THEN <<"%", HexDigits[(CharCode(c) \div 16) + 1],
                       HexDigits[(CharCode(c) % 16) + 1]>>
           ELSE <<c>>)
          \o QueryEscape(Tail(s))

ishex(c) == c \in Digits \cup {"a","b","c","d","e","f","A","B","C","D","E","F"}

unhex(c) ==
  IF c \in Digits THEN CharCode(c) - 48
  ELSE IF c \in Lower THEN CharCode(c) - 97 + 10
  ELSE CharCode(c) - 65 + 10

\* url.QueryUnescape: [ok, val]; a "%" that two hex digits do not follow is
\* an error.
RECURSIVE QueryUnescape(_)
QueryUnescape(s) ==
  IF s = <<>> THEN [ok |-> TRUE, val |-> <<>>]
  ELSE IF Head(s) = "%"
  THEN IF Len(s) < 3 \/ ~ishex(s[2]) \/ ~ishex(s[3])
       THEN [ok |-> FALSE, val |-> <<>>]
       ELSE LET rest == QueryUnescape(SubSeq(s, 4, Len(s)))
                code == unhex(s[2]) * 16 + unhex(s[3])
            IN [ok |-> rest.ok /\ code \in 32..126,
                val |-> IF code \in 32..126
                        THEN <<CodeChar(code)>> \o rest.val ELSE <<>>]
  ELSE LET rest == QueryUnescape(Tail(s))
       IN [ok |-> rest.ok,
           val |-> <<(IF Head(s) = "+" THEN " " ELSE Head(s))>> \o rest.val]

\* url.Values: a function from the keys present to their values in order.
NoValues == [k \in {} |-> <<>>]

ValuesAdd(m, key, value) ==
  [k \in DOMAIN m \cup {key} |->
     IF k = key
     THEN (IF key \in DOMAIN m THEN Append(m[key], value) ELSE <<value>>)
     ELSE m[k]]

\* Values.Get: the first value of the key, or "".
ValuesGet(m, key) ==
  IF key \in DOMAIN m /\ m[key] # <<>> THEN m[key][1] ELSE <<>>

\* Values.Set: the key holds the one value.
ValuesSet(m, key, value) ==
  [k \in DOMAIN m \cup {key} |-> IF k = key THEN <<value>> ELSE m[k]]

\* url.ParseQuery, errors dropped as URL.Query() drops them: a pair that
\* holds ";" or a bad escape is skipped, an empty pair too.
RECURSIVE ParseQueryInto(_, _)
ParseQueryInto(query, m) ==
  IF query = <<>> THEN m
  ELSE LET c    == Cut(query, <<"&">>)
           kv   == Cut(c[1], <<"=">>)
           key  == QueryUnescape(kv[1])
           val  == QueryUnescape(kv[2])
       IN IF Contains(c[1], <<";">>) \/ c[1] = <<>> \/ ~key.ok \/ ~val.ok
          THEN ParseQueryInto(c[2], m)
          ELSE ParseQueryInto(c[2], ValuesAdd(m, key.val, val.val))

URLQuery(rawQuery) == ParseQueryInto(rawQuery, NoValues)

\* The order of Go strings: byte by byte, a proper prefix first.
RECURSIVE LexLess(_, _)
LexLess(a, b) ==
  IF b = <<>> THEN FALSE
  ELSE IF a = <<>> THEN TRUE
  ELSE IF Head(a) # Head(b) THEN CharCode(Head(a)) < CharCode(Head(b))
  ELSE LexLess(Tail(a), Tail(b))

RECURSIVE SortedKeys(_)
SortedKeys(keys) ==
  IF keys = {} THEN <<>>
  ELSE LET k == CHOOSE x \in keys : \A y \in keys \ {x} : LexLess(x, y)
       IN <<k>> \o SortedKeys(keys \ {k})

RECURSIVE EncodeKey(_, _)
EncodeKey(key, vals) ==
  IF vals = <<>> THEN <<>>
  ELSE <<QueryEscape(key) \o <<"=">> \o QueryEscape(Head(vals))>>
       \o EncodeKey(key, Tail(vals))

RECURSIVE JoinAmp(_)
JoinAmp(parts) ==
  IF parts = <<>> THEN <<>>
  ELSE IF Len(parts) = 1 THEN parts[1]
  ELSE parts[1] \o <<"&">> \o JoinAmp(Tail(parts))

RECURSIVE EncodeParts(_, _)
EncodeParts(m, keys) ==
  IF keys = <<>> THEN <<>>
  ELSE EncodeKey(Head(keys), m[Head(keys)]) \o EncodeParts(m, Tail(keys))

\* Values.Encode: key=value pairs sorted by key, joined by "&".
ValuesEncode(m) == JoinAmp(EncodeParts(m, SortedKeys(DOMAIN m)))

\* A URL: the fields of url.URL that src/main.go reads or writes.
URL(scheme, host, path, rawQuery) ==
  [Scheme |-> scheme, Host |-> host, Path |-> path, RawQuery |-> rawQuery]

IsSchemeChar(c) == c \in Lower \cup Upper \cup Digits \cup {"+", "-", "."}

\* url.Parse of an absolute URL scheme://host/path?query or of a path:
\* a string that starts with ":" or whose first path segment holds ":"
\* without being a scheme is an error, and Parse returns nil and the error.
urlParse(raw) ==
  LET nofrag == Cut(raw, <<"#">>)[1]
      colon  == Index(nofrag, <<":">>)
      slash  == Index(nofrag, <<"/">>)
      hasScheme ==
        /\ colon > 1
        /\ nofrag[1] \in Lower \cup Upper
        /\ \A k \in 1..(colon - 1) : IsSchemeChar(nofrag[k])
      rest   == IF hasScheme THEN SubSeq(nofrag, colon + 1, Len(nofrag)) ELSE nofrag
      q      == Cut(rest, <<"?">>)
      hier   == q[1]
      auth   == HasPrefixAt(hier, <<"/","/">>, 1)
      afterAuth == SubSeq(hier, 3, Len(hier))
      hostEnd == Index(afterAuth, <<"/">>)
      host   == IF ~auth THEN <<>>
                ELSE IF hostEnd = 0 THEN afterAuth
                ELSE SubSeq(afterAuth, 1, hostEnd - 1)
      path   == IF ~auth THEN hier
                ELSE IF hostEnd = 0 THEN <<>>
                ELSE SubSeq(afterAuth, hostEnd, Len(afterAuth))
      bad    == \/ colon = 1
                \/ (~hasScheme /\ colon > 0 /\ (slash = 0 \/ colon < slash))
  IN [nil |-> bad,
      u   |-> URL(SubSeq(nofrag, 1, (IF hasScheme THEN colon - 1 ELSE 0)),
                  host, path, q[2])]

(***************************************************************************)
(* Package net/http: a header is a map from names to lists of values.      *)
(***************************************************************************)
\* Header.Get: the first value of the name, or "".
HeaderGet(values, empty) == IF values = <<>> THEN empty ELSE values[1]

\* Header.Set: the name holds the one value.
HeaderSet(value) == <<value>>

(***************************************************************************)
(* Literals of src/main.go.                                                *)
(***************************************************************************)
S_https == <<"h","t","t","p","s">>

S_httpsPrefix == <<"h","t","t","p","s",":","/","/">>

S_tokenPath == <<"/","_","t","o","k","e","n">>

S_scope == <<"s","c","o","p","e">>

S_repository == <<"r","e","p","o","s","i","t","o","r","y",":">>

S_userAgent ==
  <<"g","c","r","-","p","r","o","x","y","/","0",".","1"," ",
    "c","u","s","t","o","m","D","o","m","a","i","n","/">>

S_acceptAll == "*/*"

StatusTemporaryRedirect == 307

StatusBadGateway == 502

StatusNotFound == 404

(***************************************************************************)
(* Requests and responses.  A request holds its Host, its URL and the      *)
(* headers the program touches; a response its status and headers.         *)
(***************************************************************************)
Request(host, url, authorization, userAgent) ==
  [Host   |-> host,
   URL    |-> url,
   Header |-> [Authorization |-> authorization,
               UserAgent     |-> userAgent,
               Accept        |-> <<>>]]

NoRequest == Request(<<>>, URL(<<>>, <<>>, <<>>, <<>>), <<>>, <<>>)

Response(status, wwwAuthenticate) ==
  [StatusCode |-> status,
   Header     |-> [WwwAuthenticate |-> wwwAuthenticate, Location |-> <<>>]]

NoResponse == Response(0, <<>>)

\* What the upstream does with a forwarded request: a transport error, or
\* a response.
Answer(err, resp) == [err |-> err, resp |-> resp]

NoAnswer == Answer(FALSE, NoResponse)

(***************************************************************************)
(* The program's functions on requests and responses.                      *)
(***************************************************************************)
\* rewriteRegistryV2URL without its test for the path /v2/.
rewriteRegistryV2URL_everyPath(c, req) ==
  [req EXCEPT
     !.Host       = c.host,
     !.URL.Scheme = S_https,
     !.URL.Host   = c.host,
     !.URL.Path   = reReplaceAllString(@, S_v2 \o c.repoPrefix \o <<"/">>)]

\* rewriteRegistryV2URL without req.Host = c.host.
rewriteRegistryV2URL_keepHost(c, req) ==
  [req EXCEPT
     !.URL.Scheme = S_https,
     !.URL.Host   = c.host,
     !.URL.Path   = IF @ # S_v2
                    THEN reReplaceAllString(@, S_v2 \o c.repoPrefix \o <<"/">>)
                    ELSE @]

\* rewriteRegistryV2URL(c): the Director of the registry API proxy.
rewriteRegistryV2URL(c, req) ==
  [req EXCEPT
     !.Host       = c.host,
     !.URL.Scheme = S_https,
     !.URL.Host   = c.host,
     !.URL.Path   = IF @ # S_v2
                    THEN reReplaceAllString(@, S_v2 \o c.repoPrefix \o <<"/">>)
                    ELSE @]

\* strings.Replace(s, old, new, -1)
RECURSIVE ReplaceEvery(_, _, _)
ReplaceEvery(s, old, new) ==
  LET i == Index(s, old)
  IN IF i = 0 THEN s
     ELSE SubSeq(s, 1, i - 1) \o new
          \o ReplaceEvery(SubSeq(s, i + Len(old), Len(s)), old, new)

\* The new scope with every "repository:" replaced.
newScope_every(scope, prefix) ==
  ReplaceEvery(scope, S_repository, S_repository \o prefix \o <<"/">>)

\* The new scope of tokenProxyHandler's Director.
newScope(scope, prefix) ==
  ReplaceFirst(scope, S_repository, S_repository \o prefix \o <<"/">>)

\* The Director of tokenProxyHandler(endpoint, prefix): the request as it
\* leaves, and whether the Director panicked (url.Parse gave nil).
tokenProxyDirector(endpoint, prefix, r) ==
  LET q     == URLQuery(r.URL.RawQuery)
      scope == ValuesGet(q, S_scope)
      u     == urlParse(endpoint)
  IN IF scope = <<>> THEN [panic |-> FALSE, req |-> r]
     ELSE IF u.nil THEN [panic |-> TRUE, req |-> r]
     ELSE [panic |-> FALSE,
           req   |-> [r EXCEPT
                        !.URL = [u.u EXCEPT !.RawQuery =
                                   ValuesEncode(ValuesSet(q, S_scope,
                                                          newScope(scope, prefix)))],
                        !.Host = u.u.Host]]

\* RoundTrip adding the authenticator's header after the client's
\* (Header.Add).
RoundTripHeaders_add(a, header, origHost, req) ==
  LET h1 == IF a # "nil"
            THEN [req.Header EXCEPT !.Authorization = @ \o <<header>>]
            ELSE req.Header
      ua == HeaderGet(h1.UserAgent, <<>>)
      h2 == IF ua # <<>>
            THEN [h1 EXCEPT !.UserAgent =
                    HeaderSet(S_userAgent \o origHost \o <<" ">> \o ua)]
            ELSE h1
  IN [req EXCEPT !.Header = [h2 EXCEPT !.Accept = HeaderSet(S_acceptAll)]]

\* RoundTrip with Authorization set only when the client sent none.
RoundTripHeaders_ifAbsent(a, header, origHost, req) ==
  LET h1 == IF a # "nil" /\ req.Header.Authorization = <<>>
            THEN [req.Header EXCEPT !.Authorization = HeaderSet(header)]
            ELSE req.Header
      ua == HeaderGet(h1.UserAgent, <<>>)
      h2 == IF ua # <<>>
            THEN [h1 EXCEPT !.UserAgent =
                    HeaderSet(S_userAgent \o origHost \o <<" ">> \o ua)]
            ELSE h1
  IN [req EXCEPT !.Header = [h2 EXCEPT !.Accept = HeaderSet(S_acceptAll)]]

\* registryRoundtripper.RoundTrip up to the transport: the headers it sets.
\* a is the authenticator's kind, header what its AuthHeader() returned.
RoundTripHeaders(a, header, origHost, req) ==
  LET h1 == IF a # "nil"
            THEN [req.Header EXCEPT !.Authorization = HeaderSet(header)]
            ELSE req.Header
      ua == HeaderGet(h1.UserAgent, <<>>)
      h2 == IF ua # <<>>
            THEN [h1 EXCEPT !.UserAgent =
                    HeaderSet(S_userAgent \o origHost \o <<" ">> \o ua)]
            ELSE h1
  IN [req EXCEPT !.Header = [h2 EXCEPT !.Accept = HeaderSet(S_acceptAll)]]

\* updateTokenEndpoint(resp, host)
updateTokenEndpoint(resp, host) ==
  LET v   == HeaderGet(resp.Header.WwwAuthenticate, <<>>)
      cur == S_httpsPrefix \o host \o S_tokenPath
  IN IF v = <<>> THEN resp
     ELSE [resp EXCEPT !.Header.WwwAuthenticate =
             HeaderSet(realmReplaceAllString(v, S_realmOpen \o cur \o S_quote))]

\* The request URI of an inbound request: its path and query.
RequestURI(req) ==
  req.URL.Path \o (IF req.URL.RawQuery = <<>> THEN <<>>
                   ELSE <<"?">> \o req.URL.RawQuery)

\* browserRedirectHandler(cfg): a redirect to the registry's own pages.
browserRedirectHandler(c, req) ==
  [Response(StatusTemporaryRedirect, <<>>) EXCEPT
     !.Header.Location =
        HeaderSet(S_httpsPrefix \o c.host \o <<"/">> \o c.repoPrefix \o RequestURI(req))]

\* The handler main's ServeMux picks for a path.
muxHandler(path, endpoint, redirects) ==
  IF path = S_tokenPath /\ endpoint # <<>> THEN "tokenProxyHandler"
  ELSE IF HasPrefixAt(path, S_v2, 1) THEN "registryAPIProxy"
  ELSE IF redirects THEN "browserRedirectHandler"
  ELSE "NotFound"

(***************************************************************************)
(* State.                                                                  *)
(***************************************************************************)
VARIABLES
  proc,             \* where main is: "serving", "exited" after log.Fatal, or a
                    \* step of the startup
  probe,            \* what the registry answered to discoverTokenService
  cfg,              \* registryConfig: [host, repoPrefix]
  tokenEndpoint,    \* the realm discoverTokenService found
  browserRedirects, \* DISABLE_BROWSER_REDIRECTS is unset
  auth,             \* the authenticator's kind: "nil", "authHeader", "metadataServerAuth"
  authToken,        \* authHeader's string, or metadataServerAuth.authToken
  ExpiresIn,        \* metadataServerAuth.ExpiresIn
  t,                \* metadataServerAuth.t: [set, at], the timer and when it fires
  mu,               \* metadataServerAuth's RWMutex: [w, r], the writer and the readers in
  tpc,              \* where the updateTokenTimer goroutine is
  fetched,          \* what getAuthToken returned to the refresh under way
  issuedAt,         \* when the metadata service issued the token now held
  minted,           \* how many tokens the metadata service has issued
  now,              \* the time, in seconds
  pc,               \* where each request's goroutine is
  inreq,            \* the request as the server received it
  ctx,              \* the request context's ctxKeyOriginalHost value
  outreq,           \* the request the reverse proxy sends
  upstream,         \* what the upstream will answer
  client            \* the response written to the client

cfgVars == <<proc, probe, cfg, tokenEndpoint, browserRedirects, auth>>

authVars == <<authToken, ExpiresIn, t, mu, tpc, fetched, issuedAt, minted>>

reqVars == <<pc, inreq, ctx, outreq, upstream, client>>

vars == <<cfgVars, authVars, now, reqVars>>

(***************************************************************************)
(* Bounds.                                                                 *)
(***************************************************************************)
NumReqs == 2

MaxTokens == 3

MaxTime == 600

TickLen == 100

Reqs == 1..NumReqs

\* time.NewTimer(time.Duration(m.ExpiresIn)*time.Second - 5*time.Minute)
RefreshLead == 300

\* The expires_in values the metadata service answers with.
ExpiresChoices == {200, 400, 3600}

TokenType == "Bearer"

NoCtx == <<"<", "n", "i", "l", ">">>

NoToken == <<>>

NoFetch == [AccessToken |-> 0, ExpiresIn |-> 0, at |-> 0]

NoTimer == [set |-> FALSE, at |-> 0]

Unlocked == [w |-> "no", r |-> 0]

(***************************************************************************)
(* Inputs.  The strings below are what the clients, the upstream and the   *)
(* environment supply.                                                     *)
(***************************************************************************)
H_gcr == <<"g","c","r",".","i","o">>

H_proxy == <<"m","y","p","r","o","x","y",".","e","x","a","m","p","l","e",".","o","r",
      "g">>

P_manifest == <<"/","v","2","/","l","i","b","r","a","r","y","/","u","b","u","n","t","u",
      "/","m","a","n","i","f","e","s","t","s","/","l","a","t","e","s","t">>

W_bearer ==
  <<"B","e","a","r","e","r"," ","r","e","a","l","m","=","\"","h","t","t","p",
      "s",":","/","/","a","u","t","h",".","e","x","a","m","p","l","e",".","c",
      "o","m","/","t","o","k","e","n","\"",",","s","e","r","v","i","c","e","=",
      "\"","r","\"">>

W_rewritten ==
  <<"B","e","a","r","e","r"," ","r","e","a","l","m","=","\"","h","t","t","p",
      "s",":","/","/","m","y","p","r","o","x","y",".","e","x","a","m","p","l",
      "e",".","o","r","g","/","_","t","o","k","e","n","\"",",","s","e","r","v",
      "i","c","e","=","\"","r","\"">>

E_auth == <<"h","t","t","p","s",":","/","/","a","u","t","h",".","e","x","a","m","p",
      "l","e",".","c","o","m","/","t","o","k","e","n">>

Q_pull == <<"s","c","o","p","e","=","r","e","p","o","s","i","t","o","r","y",":","f",
      "o","o","/","b","a","r",":","p","u","l","l">>

Sc_pull == <<"r","e","p","o","s","i","t","o","r","y",":","f","o","o","/","b","a","r",
      ":","p","u","l","l">>

Sc_pullPrefixed == <<"r","e","p","o","s","i","t","o","r","y",":","m","y","p","r","o","j","e",
      "c","t","/","f","o","o","/","b","a","r",":","p","u","l","l">>

\* REPO_PREFIX: any string that is not empty.
Prefixes ==
  { <<"m","y","o","r","g">>,
    <<"m","y","p","r","o","j","e","c","t">>,
    <<"p">>,
    <<"v","2">>,
    <<"a","$","b">>,
    <<"x","$","0">> }

\* Paths under /v2/, the pattern of the registry API proxy.
Paths ==
  { S_v2,
    P_manifest,
    <<"/","v","2","/","a">>,
    <<"/","v","2","/","a","/","v","2","/","b">>,
    <<"/","v","2","/","v","2","/">>,
    <<"/","v","2","/","/">>,
    <<"/","v","2","/","a","$","1">> }

\* Paths of no proxy.
OtherPaths ==
  { <<"/">>,
    <<"/","f","o","o">> }

\* Queries of registry requests.
Queries ==
  { <<>>,
    <<"n","=","1","&","l","a","s","t","=","a">> }

\* Host headers: net/http accepts "$" and other sub-delimiters in them.
Hosts ==
  { H_proxy,
    <<"h">>,
    <<"h",":","8","0","8","0">>,
    <<"h","$","1">>,
    <<"a","$","$","b">> }

\* The WWW-Authenticate values of an upstream response.
Challenges ==
  { <<>>,
    <<W_bearer>>,
    <<W_rewritten>>,
    <<<<>>>>,
    <<<<"B","a","s","i","c"," ","r","e","a","l","m","=","x">>>>,
    <<<<"B","e","a","r","e","r"," ","s","e","r","v","i","c","e","=","\"","r","\"">>>>,
    <<<<"r","e","a","l","m","=","\"">>>>,
    <<<<"B","e","a","r","e","r"," ","r","e","a","l","m","=","\"","\"">>>>,
    <<<<"B","e","a","r","e","r"," ","r","e","a","l","m","=","\"","a","\"",",","r",
      "e","a","l","m","=","\"","b","\""," ","r","e","a","l","m","=","\"","c">>>>,
    <<<<"r","e","a","l","m","=","\"","r","e","a","l","m","=","\"","a","\"">>>>,
    <<<<"N","e","g","o","t","i","a","t","e">>, W_bearer>>,
    <<<<"N","e","g","o","t","i","a","t","e">>,
      <<"B","a","s","i","c"," ","r","e","a","l","m","=","x">>>>,
    <<W_bearer, <<"B","a","s","i","c"," ","r","e","a","l","m","=","\"","r","\"">>>> }

\* Queries of token requests.
TokenQueries ==
  { <<>>,
    Q_pull,
    <<"s","e","r","v","i","c","e","=","r">>,
    <<"s","c","o","p","e","=">>,
    <<"s","c","o","p","e","=","r","e","p","o","s","i","t","o","r","y","%","3",
      "A","f","o","o","%","2","F","b","a","r","%","3","A","p","u","l","l","&",
      "s","e","r","v","i","c","e","=","r">>,
    <<"s","e","r","v","i","c","e","=","r","&","s","c","o","p","e","=","r","e",
      "g","i","s","t","r","y",":","c","a","t","a","l","o","g",":","*">>,
    <<"s","c","o","p","e","=","r","e","p","o","s","i","t","o","r","y",":","a",
      ":","p","u","l","l","+","r","e","p","o","s","i","t","o","r","y",":","b",
      ":","p","u","l","l">>,
    <<"s","c","o","p","e","=","r","e","p","o","s","i","t","o","r","y",":","a",
      ":","p","u","l","l","&","s","c","o","p","e","=","r","e","p","o","s","i",
      "t","o","r","y",":","b",":","p","u","s","h">>,
    <<"s","c","o","p","e","=","%","z","z","&","s","e","r","v","i","c","e","=",
      "r">>,
    <<"s","c","o","p","e","=","x","r","e","p","o","s","i","t","o","r","y",":",
      "a","$","1",":","p","u","l","l">>,
    <<"a","c","c","o","u","n","t","=","u","&","s","c","o","p","e","=","a","%",
      "2","6","b","%","3","D","c">> }

\* Realms an upstream registry announces.
TokenEndpoints ==
  { E_auth,
    <<"h","t","t","p","s",":","/","/","g","c","r",".","i","o","/","v","2","/",
      "t","o","k","e","n","?","x","=","1">> }

\* What clients send as Authorization, and the header of AUTH_HEADER.
ClientAuthorization == <<"Bearer", 0>>

StaticAuthorization == <<"Basic", 0>>

UA_docker == <<"d","o","c","k","e","r","/","2","0">>

H_other == <<"k",".","e","x","a","m","p","l","e">>

W_basic == <<"B","a","s","i","c"," ","r","e","a","l","m","=","x">>

Inbound(host, path, rawQuery, authorization, userAgent) ==
  Request(host, URL(<<>>, <<>>, path, rawQuery), authorization, userAgent)

\* The requests and answers of the concurrent specifications.
SmallInputs ==
  {[req |-> Inbound(<<"h">>, <<"/","v","2","/","a">>, <<>>, <<>>, <<UA_docker>>),
    answer |-> a] :
     a \in {Answer(TRUE, NoResponse), Answer(FALSE, Response(401, <<W_bearer>>))}}
  \cup
  {[req |-> Inbound(H_other, S_v2, <<>>, <<ClientAuthorization>>, <<>>),
    answer |-> Answer(FALSE, Response(401, <<W_basic>>))],
   [req |-> Inbound(<<"h">>, S_tokenPath, Q_pull, <<ClientAuthorization>>, <<>>),
    answer |-> Answer(FALSE, Response(200, <<>>))]}

\* The one request of the specification of the authenticator in time.
ProbeInputs ==
  {[req |-> Inbound(<<"h">>, S_v2, <<>>, <<>>, <<>>),
    answer |-> Answer(FALSE, Response(200, <<>>))]}

\* REGISTRY_HOST
RegistryHosts == {H_gcr, <<"r",".","i","o">>}

\* The inputs of the sequential specification: one request, with the
\* configuration it meets and the answer it gets.
SeqInput(host, prefix, endpoint, redirects, req, answer) ==
  [cfg |-> [host |-> host, repoPrefix |-> prefix], tokenEndpoint |-> endpoint,
   browserRedirects |-> redirects, req |-> req, answer |-> answer]

SeqInputs ==
  {SeqInput(g, p, E_auth, TRUE, Inbound(H_proxy, path, q, <<>>, <<UA_docker>>),
            Answer(FALSE, Response(200, <<>>))) :
     g \in RegistryHosts, p \in Prefixes, path \in Paths, q \in Queries}
  \cup
  {SeqInput(H_gcr, <<"p">>, E_auth, TRUE, Inbound(h, path, <<>>, <<>>, <<>>),
            Answer(FALSE, Response(401, w))) :
     h \in Hosts, path \in {S_v2, P_manifest}, w \in Challenges}
  \cup
  {SeqInput(H_gcr, <<"p">>, E_auth, TRUE, Inbound(h, S_v2, <<>>, <<>>, <<>>),
            Answer(TRUE, NoResponse)) : h \in Hosts}
  \cup
  {SeqInput(H_gcr, p, e, TRUE, Inbound(H_proxy, S_tokenPath, q, a, <<>>),
            Answer(FALSE, Response(200, <<>>))) :
     p \in Prefixes, e \in TokenEndpoints, q \in TokenQueries,
     a \in {<<>>, <<ClientAuthorization>>}}
  \cup
  {SeqInput(H_gcr, <<"p">>, E_auth, b, Inbound(H_proxy, path, q, <<>>, <<>>), NoAnswer) :
     b \in BOOLEAN, path \in OtherPaths, q \in Queries}

(***************************************************************************)
(* Initial states.                                                         *)
(***************************************************************************)
\* The registry's answer to the GET /v2/ of discoverTokenService from which
\* the token endpoint e was read.
Discovered(e) ==
  Answer(FALSE, Response(401, <<<<"B","e","a","r","e","r"," ">> \o S_realmOpen \o e \o S_quote>>))

InitRequests ==
  /\ pc = [r \in Reqs |-> "idle"]
  /\ inreq = [r \in Reqs |-> NoRequest]
  /\ ctx = [r \in Reqs |-> NoCtx]
  /\ outreq = [r \in Reqs |-> NoRequest]
  /\ upstream = [r \in Reqs |-> NoAnswer]
  /\ client = [r \in Reqs |-> NoResponse]

\* getAuthData with neither USE_METADATA_SERVER nor a header: auth is nil.
InitNoAuth ==
  /\ auth = "nil"
  /\ authToken = NoToken
  /\ ExpiresIn = 0
  /\ t = NoTimer
  /\ mu = Unlocked
  /\ tpc = "off"
  /\ fetched = NoFetch
  /\ issuedAt = 0
  /\ minted = 0

\* getAuthData with AUTH_HEADER set: auth is the header.
InitStaticAuth ==
  /\ auth = "authHeader"
  /\ authToken = StaticAuthorization
  /\ ExpiresIn = 0
  /\ t = NoTimer
  /\ mu = Unlocked
  /\ tpc = "off"
  /\ fetched = NoFetch
  /\ issuedAt = 0
  /\ minted = 0

\* getAuthData with USE_METADATA_SERVER set, after metadataServerAuth.Init:
\* the first token is stored, its timer armed, the goroutine started.
InitMetadataAuth ==
  /\ auth = "metadataServerAuth"
  /\ \E e \in ExpiresChoices :
       /\ ExpiresIn = e
       /\ t = [set |-> TRUE, at |-> e - RefreshLead]
  /\ authToken = <<TokenType, 1>>
  /\ mu = Unlocked
  /\ tpc = "updateTokenTimer"
  /\ fetched = NoFetch
  /\ issuedAt = 0
  /\ minted = 1

\* main, once it listens.
Init ==
  /\ proc = "serving"
  /\ cfg = [host |-> H_gcr, repoPrefix |-> <<"m","y","o","r","g">>]
  /\ probe = Discovered(E_auth)
  /\ tokenEndpoint = E_auth
  /\ browserRedirects = TRUE
  /\ now = 0
  /\ InitNoAuth \/ InitStaticAuth \/ InitMetadataAuth
  /\ InitRequests

\* One request, received, under any configuration of SeqInputs.
InitSeq ==
  /\ proc = "serving"
  /\ now = 0
  /\ InitNoAuth \/ InitStaticAuth
  /\ \E i \in SeqInputs :
       /\ cfg = i.cfg
       /\ probe = Discovered(i.tokenEndpoint)
       /\ tokenEndpoint = i.tokenEndpoint
       /\ browserRedirects = i.browserRedirects
       /\ pc = [r \in Reqs |-> IF r = 1 THEN "captureHostHeader" ELSE "idle"]
       /\ inreq = [r \in Reqs |-> IF r = 1 THEN i.req ELSE NoRequest]
       /\ upstream = [r \in Reqs |-> IF r = 1 THEN i.answer ELSE NoAnswer]
  /\ ctx = [r \in Reqs |-> NoCtx]
  /\ outreq = [r \in Reqs |-> NoRequest]
  /\ client = [r \in Reqs |-> NoResponse]

(***************************************************************************)
(* The authenticator.                                                      *)
(***************************************************************************)
\* authenticator.AuthHeader(): authHeader returns its string,
\* metadataServerAuth its authToken.
AuthHeader == authToken

Serving == proc = "serving"

\* The refresh goroutine runs from metadataServerAuth.Init on, while main
\* goes on to listen.
Running == proc \in {"ListenAndServe", "serving"}

\* The timer m.t has fired: a value waits on m.t.C.
TimerDue == t.set /\ now >= t.at

\* updateToken taking m.Lock() before it calls getAuthToken.
updateTokenTimer_lockFirst ==
  /\ Running
  /\ tpc = "updateTokenTimer"
  /\ TimerDue
  /\ mu.r = 0
  /\ mu' = [mu EXCEPT !.w = "held"]
  /\ tpc' = "getAuthToken"
  /\ t' = [t EXCEPT !.set = FALSE]
  /\ UNCHANGED <<cfgVars, authToken, ExpiresIn, fetched, issuedAt, minted, now, reqVars>>

\* updateTokenTimer: <-m.t.C returns, and updateToken sends its request to
\* the metadata service.
updateTokenTimer ==
  /\ Running
  /\ tpc = "updateTokenTimer"
  /\ TimerDue
  /\ tpc' = "getAuthToken"
  /\ t' = [t EXCEPT !.set = FALSE]
  /\ UNCHANGED <<cfgVars, authToken, ExpiresIn, mu, fetched, issuedAt, minted, now, reqVars>>

\* getAuthToken returns a token: the metadata service issues it now, for
\* expires_in seconds.
getAuthToken ==
  /\ Running
  /\ tpc = "getAuthToken"
  /\ minted < MaxTokens
  /\ \E e \in ExpiresChoices :
       fetched' = [AccessToken |-> minted + 1, ExpiresIn |-> e, at |-> now]
  /\ minted' = minted + 1
  /\ tpc' = "Lock"
  /\ UNCHANGED <<cfgVars, authToken, ExpiresIn, t, mu, issuedAt, now, reqVars>>

\* updateToken going on with the old token when getAuthToken fails, to
\* try again at once.
getAuthTokenError_retry ==
  /\ Running
  /\ tpc = "getAuthToken"
  /\ tpc' = "updateTokenTimer"
  /\ t' = [set |-> TRUE, at |-> now]
  /\ UNCHANGED <<cfgVars, authToken, ExpiresIn, mu, fetched, issuedAt, minted, now, reqVars>>

\* getAuthToken returns an error: updateToken calls log.Fatalf.
getAuthTokenError ==
  /\ Running
  /\ tpc = "getAuthToken"
  /\ proc' = "exited"
  /\ UNCHANGED <<probe, cfg, tokenEndpoint, browserRedirects, auth, authVars, now, reqVars>>

\* updateToken calls m.Lock(): readers that come later wait.
updateTokenLock ==
  /\ Running
  /\ tpc = "Lock"
  /\ mu' = [mu EXCEPT !.w = "waiting"]
  /\ tpc' = "Locking"
  /\ UNCHANGED <<cfgVars, authToken, ExpiresIn, t, fetched, issuedAt, minted, now, reqVars>>

\* m.Lock() returning while readers are still in.
updateTokenLocked_noWait ==
  /\ Running
  /\ tpc = "Locking"
  /\ mu' = [mu EXCEPT !.w = "held"]
  /\ tpc' = "ExpiresIn"
  /\ UNCHANGED <<cfgVars, authToken, ExpiresIn, t, fetched, issuedAt, minted, now, reqVars>>

\* m.Lock() returns once no reader is in.
updateTokenLocked ==
  /\ Running
  /\ tpc = "Locking"
  /\ mu.r = 0
  /\ mu' = [mu EXCEPT !.w = "held"]
  /\ tpc' = "ExpiresIn"
  /\ UNCHANGED <<cfgVars, authToken, ExpiresIn, t, fetched, issuedAt, minted, now, reqVars>>

\* m.ExpiresIn = expiresIn
updateTokenExpiresIn ==
  /\ Running
  /\ tpc = "ExpiresIn"
  /\ ExpiresIn' = fetched.ExpiresIn
  /\ tpc' = "authToken"
  /\ UNCHANGED <<cfgVars, authToken, t, mu, fetched, issuedAt, minted, now, reqVars>>

\* m.authToken = authToken
updateTokenAuthToken ==
  /\ Running
  /\ tpc = "authToken"
  /\ authToken' = <<TokenType, fetched.AccessToken>>
  /\ issuedAt' = fetched.at
  /\ tpc' = "NewTimer"
  /\ UNCHANGED <<cfgVars, ExpiresIn, t, mu, fetched, minted, now, reqVars>>

\* updateToken storing the token and arming no timer.
updateTokenNewTimer_noTimer ==
  /\ Running
  /\ tpc = "NewTimer"
  /\ t' = NoTimer
  /\ mu' = [mu EXCEPT !.w = "no"]
  /\ fetched' = NoFetch
  /\ tpc' = "updateTokenTimer"
  /\ UNCHANGED <<cfgVars, authToken, ExpiresIn, issuedAt, minted, now, reqVars>>

\* updateToken arming the timer for the expiry itself.
updateTokenNewTimer_atExpiry ==
  /\ Running
  /\ tpc = "NewTimer"
  /\ t' = [set |-> TRUE, at |-> now + ExpiresIn]
  /\ mu' = [mu EXCEPT !.w = "no"]
  /\ fetched' = NoFetch
  /\ tpc' = "updateTokenTimer"
  /\ UNCHANGED <<cfgVars, authToken, ExpiresIn, issuedAt, minted, now, reqVars>>

\* m.t = time.NewTimer(...), then the deferred m.Unlock(); updateTokenTimer
\* loops and waits on the new timer.
updateTokenNewTimer ==
  /\ Running
  /\ tpc = "NewTimer"
  /\ t' = [set |-> TRUE, at |-> now + ExpiresIn - RefreshLead]
  /\ mu' = [mu EXCEPT !.w = "no"]
  /\ fetched' = NoFetch
  /\ tpc' = "updateTokenTimer"
  /\ UNCHANGED <<cfgVars, authToken, ExpiresIn, issuedAt, minted, now, reqVars>>

\* Time passes while the refresh goroutine waits for its timer or for the
\* metadata service; its steps in memory, and a reader's, take no time, and
\* a timer that is due fires before more time passes.
Tick ==
  /\ Running
  /\ now + TickLen <= MaxTime
  /\ tpc \in {"updateTokenTimer", "getAuthToken"}
  /\ ~(tpc = "updateTokenTimer" /\ TimerDue)
  /\ \A r \in Reqs : pc[r] # "AuthHeader"
  /\ now' = now + TickLen
  /\ UNCHANGED <<cfgVars, authVars, reqVars>>

(***************************************************************************)
(* The request handlers.                                                   *)
(***************************************************************************)
\* The server accepts a request, one of inputs.
Accept(r, inputs) ==
  /\ Serving
  /\ pc[r] = "idle"
  /\ \E i \in inputs :
       /\ inreq' = [inreq EXCEPT ![r] = i.req]
       /\ upstream' = [upstream EXCEPT ![r] = i.answer]
  /\ pc' = [pc EXCEPT ![r] = "captureHostHeader"]
  /\ UNCHANGED <<cfgVars, authVars, now, ctx, outreq, client>>

Arrive(r) == Accept(r, SmallInputs)

ArriveProbe(r) == Accept(r, ProbeInputs)

\* captureHostHeader keeping the Host in one place for all requests.
captureHostHeader_shared(r) ==
  /\ Serving
  /\ pc[r] = "captureHostHeader"
  /\ ctx' = [s \in Reqs |-> inreq[r].Host]
  /\ pc' = [pc EXCEPT ![r] =
              muxHandler(inreq[r].URL.Path, tokenEndpoint, browserRedirects)]
  /\ UNCHANGED <<cfgVars, authVars, now, inreq, outreq, upstream, client>>

\* captureHostHeader: the Host goes into the context, then the mux picks
\* the handler.
captureHostHeader(r) ==
  /\ Serving
  /\ pc[r] = "captureHostHeader"
  /\ ctx' = [ctx EXCEPT ![r] = inreq[r].Host]
  /\ pc' = [pc EXCEPT ![r] =
              muxHandler(inreq[r].URL.Path, tokenEndpoint, browserRedirects)]
  /\ UNCHANGED <<cfgVars, authVars, now, inreq, outreq, upstream, client>>

\* registryAPIProxy: the reverse proxy runs its Director on the request.
registryAPIProxy(r) ==
  /\ Serving
  /\ pc[r] = "registryAPIProxy"
  /\ outreq' = [outreq EXCEPT ![r] = rewriteRegistryV2URL(cfg, inreq[r])]
  /\ pc' = [pc EXCEPT ![r] = "RoundTrip"]
  /\ UNCHANGED <<cfgVars, authVars, now, inreq, ctx, upstream, client>>

\* RoundTrip calls metadataServerAuth.AuthHeader, which takes m.RLock().
AuthHeaderRLock(r) ==
  /\ Serving
  /\ pc[r] = "RoundTrip"
  /\ auth = "metadataServerAuth"
  /\ mu.w = "no"
  /\ mu' = [mu EXCEPT !.r = @ + 1]
  /\ pc' = [pc EXCEPT ![r] = "AuthHeader"]
  /\ UNCHANGED <<cfgVars, authToken, ExpiresIn, t, tpc, fetched, issuedAt, minted, now,
                 inreq, ctx, outreq, upstream, client>>

\* RoundTrip up to the transport: AuthHeader returns (and unlocks), the
\* headers are set, the request goes to http.DefaultTransport.
RoundTripSend(r) ==
  /\ Serving
  /\ pc[r] = IF auth = "metadataServerAuth" THEN "AuthHeader" ELSE "RoundTrip"
  /\ outreq' = [outreq EXCEPT ![r] = RoundTripHeaders(auth, AuthHeader, ctx[r], @)]
  /\ mu' = IF pc[r] = "AuthHeader" THEN [mu EXCEPT !.r = @ - 1] ELSE mu
  /\ pc' = [pc EXCEPT ![r] = "Transport"]
  /\ UNCHANGED <<cfgVars, authToken, ExpiresIn, t, tpc, fetched, issuedAt, minted, now,
                 inreq, ctx, upstream, client>>

\* What the reverse proxy writes to the client on a transport error.
BadGateway == Response(StatusBadGateway, <<>>)

\* RoundTrip going on to updateTokenEndpoint whatever the transport returned.
RoundTripReturn_ignoreError(r) ==
  /\ Serving
  /\ pc[r] = "Transport"
  /\ client' = [client EXCEPT ![r] = updateTokenEndpoint(upstream[r].resp, ctx[r])]
  /\ pc' = [pc EXCEPT ![r] = "done"]
  /\ UNCHANGED <<cfgVars, authVars, now, inreq, ctx, outreq, upstream>>

\* The transport returns to RoundTrip: an error goes back to the reverse
\* proxy, a response through updateTokenEndpoint.
RoundTripReturn(r) ==
  /\ Serving
  /\ pc[r] = "Transport"
  /\ client' = [client EXCEPT ![r] =
                  IF upstream[r].err THEN BadGateway
                  ELSE updateTokenEndpoint(upstream[r].resp, ctx[r])]
  /\ pc' = [pc EXCEPT ![r] = "done"]
  /\ UNCHANGED <<cfgVars, authVars, now, inreq, ctx, outreq, upstream>>

\* tokenProxyHandler: the reverse proxy runs its Director on the request;
\* a panic of the Director ends the connection with no response.
tokenProxyHandler(r) ==
  /\ Serving
  /\ pc[r] = "tokenProxyHandler"
  /\ LET d == tokenProxyDirector(tokenEndpoint, cfg.repoPrefix, inreq[r])
     IN /\ outreq' = [outreq EXCEPT ![r] = d.req]
        /\ pc' = [pc EXCEPT ![r] = IF d.panic THEN "done" ELSE "TokenTransport"]
  /\ UNCHANGED <<cfgVars, authVars, now, inreq, ctx, upstream, client>>

\* http.DefaultTransport sends the token request: a URL with no scheme is
\* an error before anything is sent.
TokenTransport(r) ==
  /\ Serving
  /\ pc[r] = "TokenTransport"
  /\ client' = [client EXCEPT ![r] =
                  IF outreq[r].URL.Scheme = <<>> \/ upstream[r].err THEN BadGateway
                  ELSE upstream[r].resp]
  /\ pc' = [pc EXCEPT ![r] = "done"]
  /\ UNCHANGED <<cfgVars, authVars, now, inreq, ctx, outreq, upstream>>

\* browserRedirectHandler
BrowserRedirect(r) ==
  /\ Serving
  /\ pc[r] = "browserRedirectHandler"
  /\ client' = [client EXCEPT ![r] = browserRedirectHandler(cfg, inreq[r])]
  /\ pc' = [pc EXCEPT ![r] = "done"]
  /\ UNCHANGED <<cfgVars, authVars, now, inreq, ctx, outreq, upstream>>

\* No pattern of the mux matches.
NotFound(r) ==
  /\ Serving
  /\ pc[r] = "NotFound"
  /\ client' = [client EXCEPT ![r] = Response(StatusNotFound, <<>>)]
  /\ pc' = [pc EXCEPT ![r] = "done"]
  /\ UNCHANGED <<cfgVars, authVars, now, inreq, ctx, outreq, upstream>>

\* The request is over; its goroutine serves the next one.
Finish(r) ==
  /\ Serving
  /\ pc[r] = "done"
  /\ pc' = [pc EXCEPT ![r] = "idle"]
  /\ inreq' = [inreq EXCEPT ![r] = NoRequest]
  /\ ctx' = [ctx EXCEPT ![r] = NoCtx]
  /\ outreq' = [outreq EXCEPT ![r] = NoRequest]
  /\ upstream' = [upstream EXCEPT ![r] = NoAnswer]
  /\ client' = [client EXCEPT ![r] = NoResponse]
  /\ UNCHANGED <<cfgVars, authVars, now>>

(***************************************************************************)
(* Specifications.                                                         *)
(***************************************************************************)
(***************************************************************************)
(* The startup: main up to http.ListenAndServe.                            *)
(***************************************************************************)
\* What the registry answers to the GET /v2/ of discoverTokenService.
DiscoveryAnswers ==
  {Answer(TRUE, NoResponse)}
  \cup {Answer(FALSE, Response(401, w)) :
          w \in {<<>>, <<W_bearer>>, <<W_basic>>, <<<<>>, W_bearer>>,
                 <<<<"N","e","g","o","t","i","a","t","e">>, W_bearer>>,
                 <<<<"B","e","a","r","e","r"," ","r","e","a","l","m","=","\"","\"">>>>}}

\* discoverTokenService returning an empty realm and no error where it
\* finds no realm.
discoverTokenService_lenient(answer) ==
  LET hdr     == HeaderGet(answer.resp.Header.WwwAuthenticate, <<>>)
      matches == realmFindStringSubmatch(hdr)
  IN IF answer.err THEN [err |-> TRUE, realm |-> <<>>]
     ELSE IF hdr = <<>> THEN [err |-> TRUE, realm |-> <<>>]
     ELSE IF Len(matches) = 0 THEN [err |-> FALSE, realm |-> <<>>]
     ELSE [err |-> FALSE, realm |-> matches[2]]

\* discoverTokenService(registryHost), given the answer to its http.Get:
\* the realm and the error it returns.
discoverTokenService(answer) ==
  LET hdr     == HeaderGet(answer.resp.Header.WwwAuthenticate, <<>>)
      matches == realmFindStringSubmatch(hdr)
  IN IF answer.err THEN [err |-> TRUE, realm |-> <<>>]
     ELSE IF hdr = <<>> THEN [err |-> TRUE, realm |-> <<>>]
     ELSE IF Len(matches) = 0 THEN [err |-> TRUE, realm |-> <<>>]
     ELSE [err |-> FALSE, realm |-> matches[2]]

\* main before anything ran: PORT, REGISTRY_HOST and REPO_PREFIX are set.
InitStart ==
  /\ proc = "discoverTokenService"
  /\ probe = NoAnswer
  /\ cfg = [host |-> H_gcr, repoPrefix |-> <<"m","y","o","r","g">>]
  /\ tokenEndpoint = <<>>
  /\ browserRedirects = TRUE
  /\ now = 0
  /\ InitNoAuth
  /\ InitRequests

\* main calls discoverTokenService and log.Fatalf on its error.
mainDiscoverTokenService ==
  /\ proc = "discoverTokenService"
  /\ \E a \in DiscoveryAnswers :
       /\ probe' = a
       /\ IF discoverTokenService(a).err
          THEN proc' = "exited" /\ tokenEndpoint' = tokenEndpoint
          ELSE proc' = "getAuthData" /\ tokenEndpoint' = discoverTokenService(a).realm
  /\ UNCHANGED <<cfg, browserRedirects, auth, authVars, now, reqVars>>

\* getAuthData with neither USE_METADATA_SERVER, AUTH_HEADER nor
\* GOOGLE_APPLICATION_CREDENTIALS: auth stays nil.
getAuthDataNone ==
  /\ proc = "getAuthData"
  /\ proc' = "ListenAndServe"
  /\ UNCHANGED <<probe, cfg, tokenEndpoint, browserRedirects, auth, authVars, now, reqVars>>

\* getAuthData with AUTH_HEADER, or with a key file it can read.
getAuthDataHeader ==
  /\ proc = "getAuthData"
  /\ auth' = "authHeader"
  /\ authToken' = StaticAuthorization
  /\ proc' = "ListenAndServe"
  /\ UNCHANGED <<probe, cfg, tokenEndpoint, browserRedirects, ExpiresIn, t, mu, tpc,
                 fetched, issuedAt, minted, now, reqVars>>

\* getAuthData with a key file it cannot read: log.Fatalf.
getAuthDataError ==
  /\ proc = "getAuthData"
  /\ proc' = "exited"
  /\ UNCHANGED <<probe, cfg, tokenEndpoint, browserRedirects, auth, authVars, now, reqVars>>

\* getAuthData with USE_METADATA_SERVER: it calls metadataServerAuth.Init.
getAuthDataMetadata ==
  /\ proc = "getAuthData"
  /\ proc' = "metadataServerAuth.Init"
  /\ UNCHANGED <<probe, cfg, tokenEndpoint, browserRedirects, auth, authVars, now, reqVars>>

\* metadataServerAuth.Init starting the goroutine on the first fetch and
\* returning before a token is stored.
metadataServerAuthInit_async ==
  /\ proc = "metadataServerAuth.Init"
  /\ tpc' = "getAuthToken"
  /\ auth' = "metadataServerAuth"
  /\ proc' = "ListenAndServe"
  /\ UNCHANGED <<probe, cfg, tokenEndpoint, browserRedirects, authToken, ExpiresIn, t, mu,
                 fetched, issuedAt, minted, now, reqVars>>

\* metadataServerAuth.Init: updateToken fetches and stores the first token
\* (no other goroutine runs yet), then the refresh goroutine is started and
\* getAuthData returns the authenticator.
metadataServerAuthInit ==
  /\ proc = "metadataServerAuth.Init"
  /\ \E e \in ExpiresChoices :
       /\ ExpiresIn' = e
       /\ t' = [set |-> TRUE, at |-> now + e - RefreshLead]
  /\ authToken' = <<TokenType, minted + 1>>
  /\ issuedAt' = now
  /\ minted' = minted + 1
  /\ tpc' = "updateTokenTimer"
  /\ auth' = "metadataServerAuth"
  /\ proc' = "ListenAndServe"
  /\ UNCHANGED <<probe, cfg, tokenEndpoint, browserRedirects, mu, fetched, now, reqVars>>

\* metadataServerAuth.Init when the first getAuthToken fails: log.Fatalf.
metadataServerAuthInitError ==
  /\ proc = "metadataServerAuth.Init"
  /\ proc' = "exited"
  /\ UNCHANGED <<probe, cfg, tokenEndpoint, browserRedirects, auth, authVars, now, reqVars>>

\* http.ListenAndServe: the handlers are registered, the server accepts.
ListenAndServe ==
  /\ proc = "ListenAndServe"
  /\ proc' = "serving"
  /\ UNCHANGED <<probe, cfg, tokenEndpoint, browserRedirects, auth, authVars, now, reqVars>>

\* http.ListenAndServe returns an error at once: log.Fatalf.
ListenAndServeError ==
  /\ proc = "ListenAndServe"
  /\ proc' = "exited"
  /\ UNCHANGED <<probe, cfg, tokenEndpoint, browserRedirects, auth, authVars, now, reqVars>>

Startup ==
  \/ mainDiscoverTokenService
  \/ getAuthDataNone
  \/ getAuthDataHeader
  \/ getAuthDataError
  \/ getAuthDataMetadata
  \/ metadataServerAuthInit
  \/ metadataServerAuthInitError
  \/ ListenAndServe
  \/ ListenAndServeError

Handle(r) ==
  \/ captureHostHeader(r)
  \/ registryAPIProxy(r)
  \/ AuthHeaderRLock(r)
  \/ RoundTripSend(r)
  \/ RoundTripReturn(r)
  \/ tokenProxyHandler(r)
  \/ TokenTransport(r)

Refresh ==
  \/ updateTokenTimer
  \/ getAuthToken
  \/ getAuthTokenError
  \/ updateTokenLock
  \/ updateTokenLocked
  \/ updateTokenExpiresIn
  \/ updateTokenAuthToken
  \/ updateTokenNewTimer

Next ==
  \/ \E r \in Reqs : Arrive(r) \/ Handle(r) \/ Finish(r)
  \/ Refresh

\* The server with its requests running concurrently and the refresh
\* goroutine beside them, within one instant: the clock stands still, and
\* the refresh goroutine runs when the token's expires_in is under the lead.
Spec == Init /\ [][Next]_vars

HandleProbe(r) ==
  \/ captureHostHeader(r)
  \/ registryAPIProxy(r)
  \/ AuthHeaderRLock(r)
  \/ RoundTripSend(r)
  \/ RoundTripReturn(r)

NextAuth ==
  \/ \E r \in Reqs : ArriveProbe(r) \/ HandleProbe(r) \/ Finish(r)
  \/ Refresh
  \/ Tick

\* main, once it listens, with USE_METADATA_SERVER set.
InitAuth ==
  /\ proc = "serving"
  /\ cfg = [host |-> H_gcr, repoPrefix |-> <<"m","y","o","r","g">>]
  /\ probe = Discovered(E_auth)
  /\ tokenEndpoint = E_auth
  /\ browserRedirects = TRUE
  /\ now = 0
  /\ auth = "metadataServerAuth"
  /\ \E e \in ExpiresChoices :
       /\ ExpiresIn = e
       /\ t = [set |-> TRUE, at |-> e - RefreshLead]
  /\ authToken = <<TokenType, 1>>
  /\ mu = Unlocked
  /\ tpc = "updateTokenTimer"
  /\ fetched = NoFetch
  /\ issuedAt = 0
  /\ minted = 1
  /\ InitRequests

\* The metadata authenticator in time: the refresh goroutine, the clock,
\* and requests that call AuthHeader.
SpecAuth == InitAuth /\ [][NextAuth]_vars

NextStart ==
  \/ Startup
  \/ \E r \in Reqs : ArriveProbe(r) \/ HandleProbe(r) \/ Finish(r)
  \/ Refresh
  \/ Tick

\* The process from the start of main: discovery, the authenticator, the
\* listener, then requests beside the refresh goroutine, in time.
SpecStart == InitStart /\ [][NextStart]_vars

\* Time passes, whatever the requests do, while the refresh goroutine waits
\* for its timer or for the metadata service; a timer that is due fires
\* before more time passes.
Elapse ==
  /\ Running
  /\ now + TickLen <= MaxTime
  /\ tpc \in {"updateTokenTimer", "getAuthToken"}
  /\ ~(tpc = "updateTokenTimer" /\ TimerDue)
  /\ now' = now + TickLen
  /\ UNCHANGED <<cfgVars, authVars, reqVars>>

NextLive ==
  \/ \E r \in Reqs : ArriveProbe(r) \/ HandleProbe(r) \/ Finish(r)
  \/ Refresh
  \/ Elapse

\* Time goes on; the refresh goroutine is scheduled, its fetch returns when
\* the metadata service answers (up to MaxTokens tokens), a goroutine that
\* waits for the lock gets it once it is free, and a request's goroutine in
\* RoundTrip is scheduled.
Fairness ==
  /\ WF_vars(Elapse)
  /\ WF_vars(updateTokenTimer)
  /\ WF_vars(getAuthToken)
  /\ WF_vars(updateTokenLock)
  /\ WF_vars(updateTokenLocked)
  /\ WF_vars(updateTokenExpiresIn)
  /\ WF_vars(updateTokenAuthToken)
  /\ WF_vars(updateTokenNewTimer)
  /\ \A r \in Reqs : SF_vars(AuthHeaderRLock(r)) /\ WF_vars(RoundTripSend(r))

\* The metadata authenticator in time, with progress.
SpecLive == InitAuth /\ [][NextLive]_vars /\ Fairness

HandleSeq(r) ==
  \/ captureHostHeader(r)
  \/ registryAPIProxy(r)
  \/ RoundTripSend(r)
  \/ RoundTripReturn(r)
  \/ tokenProxyHandler(r)
  \/ TokenTransport(r)
  \/ BrowserRedirect(r)
  \/ NotFound(r)

NextSeq == \E r \in Reqs : HandleSeq(r)

\* One request from arrival to response, over SeqInputs.
SpecSeq == InitSeq /\ [][NextSeq]_vars

(***************************************************************************)
(* Properties.                                                             *)
(***************************************************************************)
\* The request has left the Director of the registry API proxy.
PastRegistryDirector(r) == pc[r] \in {"RoundTrip", "AuthHeader", "Transport"}

\* The registry API proxy has answered the request from an upstream response.
RegistryAnswered(r) ==
  /\ pc[r] = "done"
  /\ HasPrefixAt(inreq[r].URL.Path, S_v2, 1)
  /\ ~upstream[r].err

\* The request has left the Director of the token proxy.
PastTokenDirector(r) == pc[r] = "TokenTransport"

\* s is src with its first old replaced by new, or src when it holds no old.
FirstReplaced(s, src, old, new) ==
  IF \A i \in 1..Len(src) : ~HasPrefixAt(src, old, i) THEN s = src
  ELSE \E i \in 1..Len(src) :
         /\ HasPrefixAt(src, old, i)
         /\ \A j \in 1..(i - 1) : ~HasPrefixAt(src, old, j)
         /\ s = SubSeq(src, 1, i - 1) \o new \o SubSeq(src, i + Len(old), Len(src))

\* v holds a realm="..." parameter.
HasRealm(v) ==
  \E i \in 1..Len(v) :
    /\ HasPrefixAt(v, S_realmOpen, i)
    /\ \E q \in (i + Len(S_realmOpen))..Len(v) : v[q] = "\""

\* w is v with the value of its one realm="..." parameter replaced by value.
RealmSetTo(w, v, value) ==
  \E i \in 1..Len(v) :
    /\ HasPrefixAt(v, S_realmOpen, i)
    /\ \E q \in (i + Len(S_realmOpen))..Len(v) :
         /\ v[q] = "\""
         /\ \A k \in (i + Len(S_realmOpen))..(q - 1) : v[k] # "\""
         /\ w = SubSeq(v, 1, i + Len(S_realmOpen) - 1) \o value \o SubSeq(v, q, Len(v))

\* v holds realm=" once.
OneRealm(v) == Cardinality({i \in 1..Len(v) : HasPrefixAt(v, S_realmOpen, i)}) = 1

\* C3: a token request with no scope parameter goes to the token endpoint
\* (its scheme, host and path) with its query string as it came.
C3_NoScopeForwarded ==
  \A r \in Reqs :
    (PastTokenDirector(r) /\ S_scope \notin DOMAIN URLQuery(inreq[r].URL.RawQuery))
    => /\ outreq[r].URL.Scheme = urlParse(tokenEndpoint).u.Scheme
       /\ outreq[r].URL.Host = urlParse(tokenEndpoint).u.Host
       /\ outreq[r].URL.Path = urlParse(tokenEndpoint).u.Path
       /\ outreq[r].URL.RawQuery = inreq[r].URL.RawQuery

P_myproject == <<"m","y","p","r","o","j","e","c","t">>

\* C4: a token request whose scope S is not empty goes to the token
\* endpoint, and the scope the endpoint reads is S with its first
\* "repository:" replaced by "repository:<repoPrefix>/", or S itself when
\* it holds none; repository:foo/bar:pull under myproject becomes
\* repository:myproject/foo/bar:pull.
C4_ScopePrefixed ==
  \A r \in Reqs :
    LET S == ValuesGet(URLQuery(inreq[r].URL.RawQuery), S_scope)
        forwarded == ValuesGet(URLQuery(outreq[r].URL.RawQuery), S_scope)
    IN (PastTokenDirector(r) /\ S # <<>>)
       => /\ outreq[r].URL.Scheme = urlParse(tokenEndpoint).u.Scheme
          /\ outreq[r].URL.Host = urlParse(tokenEndpoint).u.Host
          /\ outreq[r].URL.Path = urlParse(tokenEndpoint).u.Path
          /\ outreq[r].Host = urlParse(tokenEndpoint).u.Host
          /\ FirstReplaced(forwarded, S, S_repository,
                           S_repository \o cfg.repoPrefix \o <<"/">>)
          /\ (S = Sc_pull /\ cfg.repoPrefix = P_myproject => forwarded = Sc_pullPrefixed)

\* C4's case: a scope with two "repository:" has been rewritten.
C4_Witness ==
  \E r \in Reqs :
    LET S == ValuesGet(URLQuery(inreq[r].URL.RawQuery), S_scope)
    IN /\ PastTokenDirector(r)
       /\ Cardinality({i \in 1..Len(S) : HasPrefixAt(S, S_repository, i)}) = 2
       /\ cfg.repoPrefix = P_myproject

\* C5: a path /v2/<rest> with rest not empty leaves the path rewriter as
\* /v2/<repoPrefix>/<rest>, and the query string as it came.
C5_PathPrefixed ==
  \A r \in Reqs :
    (PastRegistryDirector(r) /\ inreq[r].URL.Path # S_v2)
    => /\ outreq[r].URL.Path =
            S_v2 \o cfg.repoPrefix \o <<"/">>
                 \o SubSeq(inreq[r].URL.Path, Len(S_v2) + 1, Len(inreq[r].URL.Path))
       /\ outreq[r].URL.RawQuery = inreq[r].URL.RawQuery

\* C6: the path /v2/ leaves the path rewriter as /v2/, whatever the
\* repoPrefix.
C6_ProbeVerbatim ==
  \A r \in Reqs :
    (PastRegistryDirector(r) /\ inreq[r].URL.Path = S_v2)
    => outreq[r].URL.Path = S_v2

\* C6's case: the probe has passed the rewriter under some repoPrefix.
C6_Witness ==
  \E r \in Reqs :
    /\ pc[r] = "Transport"
    /\ inreq[r].URL.Path = S_v2
    /\ cfg.repoPrefix = <<"v","2">>

P_myorg == <<"m","y","o","r","g">>

P_manifestOut == <<"/","v","2","/","m","y","o","r","g","/","l","i","b","r","a","r","y","/",
      "u","b","u","n","t","u","/","m","a","n","i","f","e","s","t","s","/","l",
      "a","t","e","s","t">>

\* C7: a request that has passed the path rewriter has the scheme https and
\* the upstream host as its Host and as its URL's host, whatever Host it
\* came with; /v2/library/ubuntu/manifests/latest under myorg and gcr.io
\* goes out as https://gcr.io/v2/myorg/library/ubuntu/manifests/latest.
C7_UpstreamHost ==
  \A r \in Reqs :
    PastRegistryDirector(r)
    => /\ outreq[r].URL.Scheme = S_https
       /\ outreq[r].Host = cfg.host
       /\ outreq[r].URL.Host = cfg.host
       /\ (inreq[r].URL.Path = P_manifest /\ cfg = [host |-> H_gcr, repoPrefix |-> P_myorg]
           => outreq[r].URL.Path = P_manifestOut)

\* C7's case: the manifest request of a foreign Host has passed the rewriter.
C7_Witness ==
  \E r \in Reqs :
    /\ pc[r] = "Transport"
    /\ inreq[r].URL.Path = P_manifest
    /\ inreq[r].Host = H_proxy
    /\ cfg = [host |-> H_gcr, repoPrefix |-> P_myorg]

\* C8: a response whose WWW-Authenticate header holds a realm="..."
\* parameter reaches the client with that realm set to
\* https://<originalHost>/_token and the rest of the header as it was.
C8_RealmRewritten ==
  \A r \in Reqs :
    LET up == upstream[r].resp.Header.WwwAuthenticate
    IN (RegistryAnswered(r) /\ Len(up) = 1 /\ HasRealm(up[1]) /\ OneRealm(up[1]))
       => /\ Len(client[r].Header.WwwAuthenticate) = 1
          /\ RealmSetTo(client[r].Header.WwwAuthenticate[1], up[1],
                        S_httpsPrefix \o inreq[r].Host \o S_tokenPath)

\* C9: the realm rewriter, run again on its own output with the same
\* original host, changes nothing.
C9_RewriteIdempotent ==
  \A r \in Reqs :
    RegistryAnswered(r) => updateTokenEndpoint(client[r], inreq[r].Host) = client[r]

\* C10: a response with no WWW-Authenticate header, or with none that holds
\* a realm="..." parameter, reaches the client with its headers as they
\* were.
C10_PassThrough ==
  \A r \in Reqs :
    LET up == upstream[r].resp.Header.WwwAuthenticate
    IN (RegistryAnswered(r) /\ \A k \in 1..Len(up) : ~HasRealm(up[k]))
       => client[r] = upstream[r].resp

\* The request goes to the transport in this step, from handler at.
Sends(r, at) == pc[r] # at /\ pc'[r] = at

\* C1 as stated: every request sent upstream, through the registry API
\* proxy or through the token proxy, carries what AuthHeader() returns when
\* an authenticator is configured, and its own Authorization otherwise.
C1_EveryOutboundAuthorized ==
  [][\A r \in Reqs :
       (Sends(r, "Transport") \/ Sends(r, "TokenTransport"))
       => outreq'[r].Header.Authorization =
            IF auth # "nil" THEN <<AuthHeader>> ELSE inreq[r].Header.Authorization]_vars

\* C1: every request sent upstream through the registry API proxy carries
\* what AuthHeader() returns at that moment when an authenticator is
\* configured, and the Authorization it came with when none is; every
\* request sent through the token proxy carries the Authorization it came
\* with, authenticator or not.
C1_RegistryAuthorized ==
  [][\A r \in Reqs :
       /\ Sends(r, "Transport")
          => outreq'[r].Header.Authorization =
               IF auth # "nil" THEN <<AuthHeader>> ELSE inreq[r].Header.Authorization
       /\ Sends(r, "TokenTransport")
          => outreq'[r].Header.Authorization = inreq[r].Header.Authorization]_vars

\* C1's case: a request that came with its own Authorization has gone
\* upstream with a refreshed token of the metadata service.
C1_Witness ==
  \E r \in Reqs :
    /\ pc[r] = "Transport"
    /\ auth = "metadataServerAuth"
    /\ inreq[r].Header.Authorization = <<ClientAuthorization>>
    /\ outreq[r].Header.Authorization = <<<<TokenType, 2>>>>

\* C2: whenever AuthHeader() is about to return, the token it returns was
\* issued no more than ExpiresIn seconds ago.
C2_NeverStale ==
  \A r \in Reqs : pc[r] = "AuthHeader" => now <= issuedAt + ExpiresIn

\* An AuthHeader() call is between its RLock and its return.
Reading(r) == pc[r] = "AuthHeader"

\* C11: the token and its expiry change only while the write lock is held,
\* no AuthHeader() call is between its RLock and its return while it is
\* held, and when it is released the two are the pair one fetch returned:
\* a call returns the whole token held before the refresh or the whole
\* token fetched, paired with its own expiry.
C11_NoTornToken ==
  [][/\ (authToken' # authToken \/ ExpiresIn' # ExpiresIn)
        => (mu.w = "held" /\ mu'.w = "held")
     /\ (mu.w = "held" /\ mu'.w # "held")
        => /\ authToken' = <<TokenType, fetched.AccessToken>>
           /\ ExpiresIn' = fetched.ExpiresIn
     /\ \A r \in Reqs : Reading(r)' => mu'.w # "held"
     /\ \A r \in Reqs :
          (Reading(r) /\ ~Reading(r)')
          => outreq'[r].Header.Authorization = <<authToken>>]_vars

\* C11's case: a call that began before the refresh took the lock has
\* returned the old token while the writer waited, a new token fetched.
C11_Witness ==
  \E r \in Reqs :
    /\ pc[r] = "Transport"
    /\ mu.w = "waiting"
    /\ outreq[r].Header.Authorization = <<<<TokenType, 1>>>>
    /\ fetched.AccessToken = 2
    /\ fetched.ExpiresIn # ExpiresIn

\* updateToken returns in this step, its token stored: the one of
\* metadataServerAuth.Init, or one of the refresh goroutine.
Stored ==
  \/ proc = "metadataServerAuth.Init" /\ proc' = "ListenAndServe"
  \/ mu.w = "held" /\ mu'.w = "no"

\* C12: when a token of lifetime E is stored the timer is armed for E - 300
\* seconds later (3300 for E = 3600), and the refresh goroutine starts its
\* next fetch no earlier, and later only when that moment had passed when
\* the timer was armed.
C12_RefreshLead ==
  [][/\ Stored
        => /\ t'.set
           /\ t'.at - now' = ExpiresIn' - 300
           /\ (ExpiresIn' = 3600 => t'.at - now' = 3300)
           /\ (mu.w = "held" => ExpiresIn' = fetched.ExpiresIn)
     /\ (t' # t /\ t'.set) => Stored
     /\ (tpc = "updateTokenTimer" /\ tpc' = "getAuthToken")
        => /\ now >= t.at
           /\ (now < t.at + TickLen \/ ExpiresIn < 300)]_vars

\* C12's case: a refresh at a later time stored a token of 3600 seconds and
\* the timer is armed for 3300 seconds from then.
C12_Witness ==
  /\ tpc = "updateTokenTimer"
  /\ minted >= 2
  /\ now > 0
  /\ ExpiresIn = 3600
  /\ t = [set |-> TRUE, at |-> now + 3300]

\* C13: the refresh goroutine leaves its fetch only with a newly issued
\* token in hand; the process exits only out of a fetch, the held token
\* untouched; and once it has exited nothing happens any more: no fetch is
\* tried again and no request is sent or answered.
C13_RefreshFailureFatal ==
  [][/\ proc # "exited"
     /\ (tpc = "getAuthToken" /\ tpc' # "getAuthToken")
        => /\ tpc' = "Lock"
           /\ minted' = minted + 1
           /\ fetched'.AccessToken = minted'
     /\ proc' = "exited"
        => /\ tpc = "getAuthToken"
           /\ UNCHANGED <<authVars, reqVars>>]_vars

\* C13's case: a refresh failed at a later time, the first token held, with
\* a request received and not yet sent.
C13_Witness ==
  /\ proc = "exited"
  /\ now > 0
  /\ authToken = <<TokenType, 1>>
  /\ tpc = "getAuthToken"
  /\ \E r \in Reqs : pc[r] = "RoundTrip"

\* The realm of the header value v is e: v holds realm="e", e holds no
\* quote nor line feed, and no realm="..." begins before it.
RealmIs(v, e) ==
  \E i \in 1..Len(v) :
    /\ HasPrefixAt(v, S_realmOpen \o e \o S_quote, i)
    /\ \A k \in 1..Len(e) : e[k] \notin {"\"", "\n"}
    /\ \A j \in 1..(i - 1) : ~(HasPrefixAt(v, S_realmOpen, j) /\ HasRealm(SubSeq(v, j, Len(v))))

\* The probe of the upstream's /v2/ gave a realm.
DiscoverySucceeded ==
  /\ ~probe.err
  /\ probe.resp.Header.WwwAuthenticate # <<>>
  /\ RealmIs(probe.resp.Header.WwwAuthenticate[1], tokenEndpoint)

\* C14: the process goes on from discovery, and the server accepts, only
\* when the probe of the upstream's /v2/ returned without error a
\* WWW-Authenticate header with a realm, and then the token endpoint is that
\* realm; after discovery the token endpoint never changes.
C14_DiscoveryOrAbort ==
  [][/\ proc' \notin {"discoverTokenService", "exited"} => DiscoverySucceeded'
     /\ (proc = "discoverTokenService" /\ proc' = "exited") => ~DiscoverySucceeded'
     /\ proc # "discoverTokenService" => UNCHANGED <<probe, tokenEndpoint>>
     /\ \A r \in Reqs : pc'[r] # "idle" => proc' \in {"serving", "exited"}]_vars

\* C14's case: the server has accepted a request after a discovery that
\* read the realm of a Bearer challenge.
C14_Witness ==
  /\ proc = "serving"
  /\ probe.resp.Header.WwwAuthenticate = <<W_bearer>>
  /\ tokenEndpoint = E_auth
  /\ \E r \in Reqs : pc[r] = "Transport"

\* C15: when the transport returns an error for a request of the registry
\* API proxy, that request ends, not sent again, with 502 Bad Gateway and
\* no header of an upstream response; the process goes on serving and the
\* other requests are where they were.
C15_TransportErrorLocal ==
  [][\A r \in Reqs :
       (pc[r] = "Transport" /\ pc'[r] # "Transport" /\ upstream[r].err)
       => /\ pc'[r] = "done"
          /\ client'[r].StatusCode = 502
          /\ client'[r].Header.WwwAuthenticate = <<>>
          /\ outreq'[r] = outreq[r]
          /\ proc' = "serving"
          /\ \A s \in Reqs \ {r} :
               /\ pc'[s] = pc[s]
               /\ outreq'[s] = outreq[s]
               /\ client'[s] = client[s]]_vars

\* C15's case: one request failed in the transport and another, sent
\* beside it, got the upstream's answer.
C15_Witness ==
  \E r, s \in Reqs :
    /\ pc[r] = "done" /\ upstream[r].err /\ client[r].StatusCode = 502
    /\ pc[s] = "done" /\ ~upstream[s].err /\ client[s].StatusCode = 401
    /\ proc = "serving"

\* A token the metadata service has issued, as getAuthToken formats it.
IssuedTokens == {<<TokenType, n>> : n \in 1..minted}

\* C16: the metadata authenticator is main's authenticator, the refresh
\* goroutine exists, and the server has accepted a request, only with a
\* token of the metadata service stored; every AuthHeader() call of a
\* request returns such a token, never the unset one.
C16_NeverUninitialized ==
  /\ auth = "metadataServerAuth" => authToken \in IssuedTokens
  /\ tpc # "off" => (auth = "metadataServerAuth" /\ authToken \in IssuedTokens)
  /\ proc = "metadataServerAuth.Init" => (tpc = "off" /\ \A r \in Reqs : pc[r] = "idle")
  /\ \A r \in Reqs :
       /\ pc[r] # "idle" => proc \in {"serving", "exited"}
       /\ (pc[r] \in {"Transport", "done"} /\ auth = "metadataServerAuth")
          => /\ Len(outreq[r].Header.Authorization) = 1
             /\ outreq[r].Header.Authorization[1] \in IssuedTokens

\* C16's case: a request has been sent with the first token, the refresh
\* goroutine waiting on the first timer.
C16_Witness ==
  \E r \in Reqs :
    /\ pc[r] = "Transport"
    /\ auth = "metadataServerAuth"
    /\ minted = 1
    /\ tpc = "updateTokenTimer"
    /\ outreq[r].Header.Authorization = <<<<TokenType, 1>>>>

\* The token numbered n is held, and the deadline of its timer comes
\* within the time modelled.
Held(n) ==
  /\ authToken = <<TokenType, n>>
  /\ issuedAt + ExpiresIn - RefreshLead <= MaxTime - TickLen

\* C17: the refresh goroutine waits on an armed timer or is in the one
\* refresh that consumed it, with at most one token fetched and not yet
\* stored; and every token held is replaced by the next one (or the
\* process has exited on a failed fetch).
C17_RefreshLoop ==
  /\ [](/\ tpc = "updateTokenTimer" => t.set
        /\ tpc \in {"getAuthToken", "Lock", "Locking", "ExpiresIn", "authToken", "NewTimer"}
           => ~t.set
        /\ \E n \in 1..MaxTokens : authToken = <<TokenType, n>> /\ minted \in {n, n + 1})
  /\ \A n \in 1..(MaxTokens - 1) :
       Held(n) ~> (authToken = <<TokenType, n + 1>> \/ proc = "exited")

\* C17's case: the second refresh has stored the third token, and the
\* goroutine waits on the timer armed for it.
C17_Witness ==
  /\ authToken = <<TokenType, 3>>
  /\ tpc = "updateTokenTimer"
  /\ t.set
  /\ now > 0
  /\ proc = "serving"

\* C18: while the refresh goroutine waits for its timer or for the metadata
\* service the lock is neither held nor asked for by the writer; a lock the
\* writer asked for is released again; and every AuthHeader() call that a
\* request's RoundTrip makes returns (or the process has exited).
C18_ReadersNotBlockedByFetch ==
  /\ [](tpc \in {"updateTokenTimer", "getAuthToken"} => mu.w = "no")
  /\ (mu.w # "no") ~> (mu.w = "no")
  /\ \A r \in Reqs :
       (pc[r] = "RoundTrip") ~> (pc[r] = "Transport" \/ proc = "exited")

\* C18's case: a call holds the read lock while the refresh's request to
\* the metadata service is outstanding, time having passed since it began.
C18_Witness ==
  \E r \in Reqs :
    /\ pc[r] = "AuthHeader"
    /\ tpc = "getAuthToken"
    /\ now > 0
    /\ ~TimerDue
    /\ mu = [w |-> "no", r |-> 1]

\* s holds no $.
NoDollar(s) == \A i \in 1..Len(s) : s[i] # "$"

\* C19: from the host-capture middleware on, a request's context holds the
\* Host it came with, also once the path rewriter has set its Host to the
\* upstream's; the response the client gets is the realm rewriter's for
\* that Host, and for a Host without $ the realm of a rewritten header is
\* https://<that Host>/_token.
C19_OwnOriginalHost ==
  \A r \in Reqs :
    /\ pc[r] \notin {"idle", "captureHostHeader"} => ctx[r] = inreq[r].Host
    /\ PastRegistryDirector(r)
       => /\ outreq[r].Host = cfg.host
          /\ ctx[r] = inreq[r].Host
          /\ ctx[r] # NoCtx
    /\ RegistryAnswered(r)
       => /\ client[r] = updateTokenEndpoint(upstream[r].resp, inreq[r].Host)
          /\ (upstream[r].resp.Header.WwwAuthenticate = <<W_bearer>> /\ NoDollar(inreq[r].Host))
             => /\ Len(client[r].Header.WwwAuthenticate) = 1
                /\ RealmIs(client[r].Header.WwwAuthenticate[1],
                           S_httpsPrefix \o inreq[r].Host \o S_tokenPath)

\* C19's case: a request got its realm rewritten while a request of
\* another Host was in the round-tripper.
C19_Witness ==
  \E r, s \in Reqs :
    /\ RegistryAnswered(r)
    /\ upstream[r].resp.Header.WwwAuthenticate = <<W_bearer>>
    /\ pc[s] = "Transport"
    /\ inreq[s].Host # inreq[r].Host
    /\ inreq[r].Host # cfg.host

\* The Authorization headers a client may send.
ClientAuthorizations ==
  {<<>>, <<ClientAuthorization>>, <<StaticAuthorization>>,
   <<ClientAuthorization, StaticAuthorization>>}

\* What the registry API proxy sends upstream as Authorization for the
\* request req when AuthHeader() returns header.
OutboundAuthorization(req, header) ==
  RoundTripHeaders(auth, header, req.Host, rewriteRegistryV2URL(cfg, req)).Header.Authorization

\* C20: with an authenticator, a request sent by the registry API proxy
\* carries one Authorization value, one the authenticator holds or held,
\* and the same request with any other Authorization from the client would
\* carry the same; two requests sent under a fixed header carry the same
\* Authorization whatever each came with.  With no authenticator the
\* request carries the Authorization it came with.
C20_ClientAuthorizationDropped ==
  \A r \in Reqs :
    pc[r] = "Transport"
    => IF auth = "nil"
       THEN outreq[r].Header.Authorization = inreq[r].Header.Authorization
       ELSE /\ Len(outreq[r].Header.Authorization) = 1
            /\ outreq[r].Header.Authorization[1] \in
                 (IF auth = "authHeader" THEN {StaticAuthorization} ELSE IssuedTokens)
            /\ \A a \in ClientAuthorizations :
                 OutboundAuthorization([inreq[r] EXCEPT !.Header.Authorization = a],
                                       outreq[r].Header.Authorization[1])
                 = outreq[r].Header.Authorization
            /\ \A s \in Reqs :
                 (pc[s] = "Transport" /\ auth = "authHeader")
                 => outreq[s].Header.Authorization = outreq[r].Header.Authorization

\* C20's case: under a fixed header, two requests in the transport, one
\* that came with an Authorization of its own and one that came with none.
C20_Witness ==
  \E r, s \in Reqs :
    /\ auth = "authHeader"
    /\ pc[r] = "Transport" /\ inreq[r].Header.Authorization = <<ClientAuthorization>>
    /\ pc[s] = "Transport" /\ inreq[s].Header.Authorization = <<>>
    /\ outreq[r].Header.Authorization = <<StaticAuthorization>>
    /\ outreq[s].Header.Authorization = <<StaticAuthorization>>

=============================================================================
